---- MODULE Spec2Model ----
(***************************************************************************)
(* Transport, playlist and polling logic of AudioPlayerApp                 *)
(* (src/audio_player.py), with pygame's mixer.music modelled by the state  *)
(* the application can observe through its API.                            *)
(*                                                                         *)
(* Time is counted in ticks of 0.5 s.  update_progress is re-armed every   *)
(* 200 ms, i.e. more often than once per tick: while a poll is pending, a  *)
(* poll runs between any two ticks (variable polled).                      *)
(*                                                                         *)
(* Handlers are operators from application state to application state     *)
(* (a record); an action applies one handler to the current state.  The    *)
(* fields exc, depth, rnd, stuck and log exist only while a handler runs:  *)
(* the exception being propagated, the number of nested play frames, the   *)
(* values random.randint is going to return, whether those values ran out  *)
(* and the calls made so far.                                              *)
(***************************************************************************)
EXTENDS Integers, Sequences, FiniteSets, TLC

VARIABLES
    playlist,         \* self.playlist: sequence of Song
    current_index,    \* self.current_index (0-based, -1 = none)
    paused,           \* self.paused
    repeat_mode,      \* self.repeat_mode 0 off, 1 single, 2 all
    shuffle_mode,     \* self.shuffle_mode
    play_history,     \* self.play_history, deque(maxlen=HISTORY_SIZE)
    playback_speed,   \* self.playback_speed
    mixer,            \* pygame.mixer.music
    progress,         \* self.progress (ttk.Scale), as a fraction <<num, den>>
    time_elapsed,     \* self.time_elapsed label, whole seconds
    timers,           \* pending root.after(..., self.update_progress) callbacks
    polled,           \* a poll has run since the last tick
    busy_paused,      \* get_busy() is True while paused (pygame 2.0.0) or not (>= 2.0.1)
    volume,           \* self.volume in hundredths (0.7 is 70)
    last_volume,      \* self.last_volume, -1 while the attribute does not exist
    equalizer_bands,  \* self.equalizer_bands, gains in dB
    dark_mode,        \* self.dark_mode
    visualization_data, \* self.visualization_data, deque(maxlen=VISUALIZATION_SAMPLES)
    viz_ready,        \* the visualization thread has found playback running and not appended yet
    config_file,      \* contents of CONFIG_FILE, NoFile when it does not exist
    tray_icon,        \* self.tray_icon exists and its thread runs (never on Linux)
    rand_index,       \* the local next_index of play_random while its loop runs, else NoDraw
    user_stopped,     \* history: stop() ran and nothing has been started since
    last              \* the handler that ran last and the calls it made

vars == <<playlist, current_index, paused, repeat_mode, shuffle_mode, play_history,
          playback_speed, mixer, progress, time_elapsed, timers, polled, busy_paused,
          volume, last_volume, equalizer_bands, dark_mode, visualization_data,
          viz_ready, config_file, tray_icon, rand_index, user_stopped, last>>

----------------------------------------------------------------------------
(* Bounds of the model *)

\* pending update_progress callbacks explored (play never cancels the old chain)
MaxTimers == 3
\* nested play frames before Python raises RecursionError (sys.getrecursionlimit)
RecursionLimit == 3
\* get_pos values followed (seeking back lets a stream play on and on)
MaxPos == 4
\* random.randint results available to one handler
MaxDraws == 2

(* Program constants *)
HISTORY_SIZE == 20
VISUALIZATION_SAMPLES == 120
\* DEFAULT_VOLUME = 0.7, in hundredths
DEFAULT_VOLUME == 70
\* self.equalizer_bands = [0.0] * 10
NUM_BANDS == 10
\* the equalizer has 7 sliders (range(7)), from_=-12, to=12
NUM_SLIDERS == 7
\* "current_pos >= song_length - 0.5": 0.5 s is one tick
END_BUFFER == 1

----------------------------------------------------------------------------
(* Songs: path, extension, length in ticks, and whether mixer.music.load    *)
(* accepts the file                                                         *)

Song(p, x, l, ok) == [path |-> p, ext |-> x, length |-> l, ok |-> ok]

NoSong == Song("", "", 0, FALSE)

\* CONFIG_FILE as a sequence: empty when os.path.exists(CONFIG_FILE) is False,
\* else holding the text of the file
NoFile == <<>>

\* no call of play_random is in its loop
NoDraw == -1

SongA == Song("A", ".mp3", 2, TRUE)
SongB == Song("B", ".ogg", 3, TRUE)
SongC == Song("C", ".flac", 2, TRUE)
\* a track no longer than the 0.5 s end buffer
SongS == Song("S", ".wav", 1, TRUE)
\* a file mutagen can read and the mixer cannot load
SongX == Song("X", ".mp3", 2, FALSE)
\* an AAC file
SongM == Song("M", ".m4a", 2, TRUE)

\* the extensions the file dialogs and the folder scan let through
SUPPORTED_FORMATS == {".mp3", ".wav", ".flac", ".ogg", ".m4a"}

\* Python list indexing list[i]: negative i counts from the end
InRange(seq, i) == -Len(seq) <= i /\ i < Len(seq)

Item(seq, i) == IF i < 0 THEN seq[Len(seq) + i + 1] ELSE seq[i + 1]

----------------------------------------------------------------------------
(* pygame.mixer.music.  st: "stopped" (idle or ended), "playing", "paused". *)
(* pos is get_pos(): ticks played since play(), -1 when nothing has played; *)
(* it ignores the start offset and set_pos.  real is the position in the    *)
(* stream.                                                                   *)

MixerIdle == [loaded |-> NoSong, st |-> "stopped", pos |-> -1, real |-> 0]

music_stop(m) == [m EXCEPT !.st = "stopped", !.pos = -1, !.real = 0]

music_unload(m) == [music_stop(m) EXCEPT !.loaded = NoSong]

\* load(path) of a file the mixer accepts; the caller tests song.ok first
music_load(m, song) == [loaded |-> song, st |-> "stopped", pos |-> -1, real |-> 0]

music_play(m, start) == [m EXCEPT !.st = "playing", !.pos = 0, !.real = start]

music_pause(m) == IF m.st = "playing" THEN [m EXCEPT !.st = "paused"] ELSE m

music_unpause(m) == IF m.st = "paused" THEN [m EXCEPT !.st = "playing"] ELSE m

music_set_pos(m, p) == IF m.st = "stopped" THEN m ELSE [m EXCEPT !.real = p]

\* pygame >= 2.0.1 returns False while paused, pygame 2.0.0 returned True
get_busy(m, busyPaused) == m.st = "playing" \/ (busyPaused /\ m.st = "paused")

get_pos(m) == m.pos

\* how the mixer stood when load was called: 0 nothing loaded, 1 a halted
\* stream still loaded, 2 a stream still playing or paused
LoadCode(m) == IF m.st # "stopped" THEN 2 ELSE IF m.loaded # NoSong THEN 1 ELSE 0

\* half a second of playback; the stream ends when its last tick has played
music_advance(m) ==
    IF m.st # "playing" THEN m
    ELSE IF m.real + 1 >= m.loaded.length THEN music_stop(m)
    ELSE [m EXCEPT !.pos = @ + 1, !.real = @ + 1]

----------------------------------------------------------------------------
(* Handler-local bookkeeping *)

Log(s, e, i) == [s EXCEPT !.log = Append(@, [e |-> e, i |-> i])]

Raise(s, x) == [s EXCEPT !.exc = x]

\* deque(maxlen=HISTORY_SIZE).append
deque_append(h, x) == IF Len(h) >= HISTORY_SIZE THEN Append(Tail(h), x) ELSE Append(h, x)

\* format_time shows whole seconds; two ticks are one second
format_time(ticks) == ticks \div 2

\* log, when update_progress finds the track at its end, what get_pos returned
\* and how many ticks of the stream were still unplayed
Detected(s, current_pos) ==
    Log(Log(s, "pos", current_pos), "left", s.mixer.loaded.length - s.mixer.real)

\* root.after(ms, self.update_progress)
after(s) == [s EXCEPT !.timers = @ + 1]

\* Python's builtins max and min on two numbers
max(a, b) == IF b > a THEN b ELSE a

min(a, b) == IF b < a THEN b ELSE a

\* deque(maxlen=VISUALIZATION_SAMPLES).append
viz_append(d, x) ==
    IF Len(d) >= VISUALIZATION_SAMPLES THEN Append(Tail(d), x) ELSE Append(d, x)

----------------------------------------------------------------------------
(* Equalizer.  The gains are computed and printed, nothing is applied.     *)

\* apply_equalizer that turns the gain of the first band into a volume
apply_equalizer_gain(s) ==
    IF ~get_busy(s.mixer, s.busy_paused) \/ s.current_index = -1 THEN s
    ELSE [Log(s, "band_gains", Len(s.equalizer_bands)) EXCEPT
             !.volume = max(0, min(100, @ + s.equalizer_bands[1]))]

\* the log entry records that the list band_gains was computed and printed
apply_equalizer(s) ==
    IF ~get_busy(s.mixer, s.busy_paused) \/ s.current_index = -1 THEN s
    ELSE Log(s, "band_gains", Len(s.equalizer_bands))

\* band_idx is the slider's index, 0-based
on_equalizer_change(s, band_idx, value) ==
    IF ~InRange(s.equalizer_bands, band_idx) THEN Raise(s, "IndexError")
    ELSE apply_equalizer([s EXCEPT !.equalizer_bands[band_idx + 1] = value])

----------------------------------------------------------------------------
(* Transport handlers *)

RECURSIVE play(_, _), update_progress(_), next_track(_), play_random(_), RandLoop(_)

\* stop that resets the display and leaves the mixer playing
stop_display(s) ==
    [Log(s, "stop", s.current_index) EXCEPT
        !.paused = FALSE, !.progress = <<0, 1>>, !.time_elapsed = 0]

stop(s) ==
    [Log(s, "stop", s.current_index) EXCEPT
        !.mixer = music_stop(@), !.paused = FALSE,
        !.progress = <<0, 1>>, !.time_elapsed = 0]

\* play skipping to the next track when the file cannot be loaded
play_skip(s, index) ==
    IF index < 0 \/ index >= Len(s.playlist) THEN Log(s, "play", index)
    ELSE
      LET s1   == [Log(s, "play", index) EXCEPT !.current_index = index]
          song == s.playlist[index + 1]
          m1   == music_unload(music_stop(s1.mixer))
      IN  IF ~song.ok
          THEN IF s.depth + 1 >= RecursionLimit
               THEN Log([s1 EXCEPT !.mixer = m1], "error", index)
               ELSE [next_track([Log([s1 EXCEPT !.mixer = m1], "error", index)
                                    EXCEPT !.depth = @ + 1])
                        EXCEPT !.depth = s.depth]
          ELSE
            LET sl == [Log(s1, "load", LoadCode(m1)) EXCEPT
                          !.mixer = music_load(m1, song)]
                se == IF \E b \in DOMAIN sl.equalizer_bands : sl.equalizer_bands[b] # 0
                      THEN apply_equalizer(sl) ELSE sl
                s2 == [Log(se, "start", index) EXCEPT
                          !.mixer = music_play(@, 0),
                          !.paused = FALSE,
                          !.depth = @ + 1]
                s3 == update_progress(s2)
            IN  IF s2.depth >= RecursionLimit
                THEN Log([s2 EXCEPT !.depth = s.depth], "error", index)
                ELSE IF s3.stuck THEN s3
                ELSE IF s3.exc # "none"
                THEN Log([s3 EXCEPT !.exc = "none", !.depth = s.depth], "error", index)
                ELSE [s3 EXCEPT !.play_history = deque_append(@, index),
                                !.depth = s.depth]

\* The try block of play calls Python-level helpers (update_play_button, the
\* Treeview and label updates, update_progress) only after mixer.music.play():
\* in the deepest frame the stack allows they raise RecursionError, which the
\* except clause of play catches.
play(s, index) ==
    IF index < 0 \/ index >= Len(s.playlist) THEN Log(s, "play", index)
    ELSE
      LET s1   == [Log(s, "play", index) EXCEPT !.current_index = index]
          song == s.playlist[index + 1]
          m1   == music_unload(music_stop(s1.mixer))
      IN  IF ~song.ok
          THEN \* mixer.music.load raises pygame.error; the handler shows it
               Log([s1 EXCEPT !.mixer = m1], "error", index)
          ELSE
            LET sl == [Log(s1, "load", LoadCode(m1)) EXCEPT
                          !.mixer = music_load(m1, song)]
                se == IF \E b \in DOMAIN sl.equalizer_bands : sl.equalizer_bands[b] # 0
                      THEN apply_equalizer(sl) ELSE sl
                s2 == [Log(se, "start", index) EXCEPT
                          !.mixer = music_play(@, 0),
                          !.paused = FALSE,
                          !.depth = @ + 1]
                s3 == update_progress(s2)
            IN  IF s2.depth >= RecursionLimit
                THEN Log([s2 EXCEPT !.depth = s.depth], "error", index)
                ELSE IF s3.stuck THEN s3
                ELSE IF s3.exc # "none"
                THEN Log([s3 EXCEPT !.exc = "none", !.depth = s.depth], "error", index)
                ELSE [s3 EXCEPT !.play_history = deque_append(@, index),
                                !.depth = s.depth]

\* update_progress taking every position of a playing track for its end
update_progress_eager(s) ==
    IF s.current_index = -1 \/ s.playlist = <<>> THEN after(s)
    ELSE IF get_busy(s.mixer, s.busy_paused) /\ ~s.paused
    THEN IF s.current_index >= Len(s.playlist) THEN Raise(s, "IndexError")
         ELSE
           LET current_pos == get_pos(s.mixer)
               song_length == s.playlist[s.current_index + 1].length
           IN  IF song_length > 0
               THEN LET s1 == [s EXCEPT !.progress = <<current_pos, song_length>>,
                                        !.time_elapsed = format_time(current_pos)]
                        s2 == Log(Detected(s1, current_pos), "ended", s.current_index)
                        s3 == IF s.repeat_mode = 1
                              THEN play(s2, s.current_index)
                              ELSE next_track(s2)
                    IN  IF s3.exc # "none" \/ s3.stuck THEN s3 ELSE after(s3)
               ELSE after(s)
    ELSE after(s)

\* update_progress advancing at the end of a track whatever the repeat mode
update_progress_advance(s) ==
    IF s.current_index = -1 \/ s.playlist = <<>> THEN after(s)
    ELSE IF get_busy(s.mixer, s.busy_paused) /\ ~s.paused
    THEN IF s.current_index >= Len(s.playlist) THEN Raise(s, "IndexError")
         ELSE
           LET current_pos == get_pos(s.mixer)
               song_length == s.playlist[s.current_index + 1].length
           IN  IF song_length > 0
               THEN LET s1 == [s EXCEPT !.progress = <<current_pos, song_length>>,
                                        !.time_elapsed = format_time(current_pos)]
                    IN  IF current_pos >= song_length - END_BUFFER
                        THEN LET s3 == next_track(Log(Detected(s1, current_pos), "ended",
                                                      s.current_index))
                             IN  IF s3.exc # "none" \/ s3.stuck THEN s3 ELSE after(s3)
                        ELSE after(s1)
               ELSE after(s)
    ELSE after(s)

update_progress(s) ==
    IF s.current_index = -1 \/ s.playlist = <<>> THEN after(s)
    ELSE IF get_busy(s.mixer, s.busy_paused) /\ ~s.paused
    THEN IF s.current_index >= Len(s.playlist) THEN Raise(s, "IndexError")
         ELSE
           LET current_pos == get_pos(s.mixer)
               song_length == s.playlist[s.current_index + 1].length
           IN  IF song_length > 0
               THEN LET s1 == [s EXCEPT !.progress = <<current_pos, song_length>>,
                                        !.time_elapsed = format_time(current_pos)]
                    IN  IF current_pos >= song_length - END_BUFFER
                        THEN LET s2 == Log(Detected(s1, current_pos), "ended", s.current_index)
                                 s3 == IF s.repeat_mode = 1
                                       THEN play(s2, s.current_index)
                                       ELSE next_track(s2)
                             IN  IF s3.exc # "none" \/ s3.stuck THEN s3 ELSE after(s3)
                        ELSE after(s1)
               ELSE after(s)
    ELSE after(s)

\* next_track that never wraps to the first track
next_track_nowrap(s) ==
    LET s0 == Log(s, "next_track", s.current_index)
    IN  IF s.playlist = <<>> THEN s0
        ELSE IF s.shuffle_mode THEN play_random(s0)
        ELSE LET next_index == s.current_index + 1
             IN  IF next_index >= Len(s.playlist) THEN stop(s0) ELSE play(s0, next_index)

\* next_track that wraps to the first track in every repeat mode
next_track_wrap(s) ==
    LET s0 == Log(s, "next_track", s.current_index)
    IN  IF s.playlist = <<>> THEN s0
        ELSE IF s.shuffle_mode THEN play_random(s0)
        ELSE LET next_index == s.current_index + 1
             IN  IF next_index >= Len(s.playlist) THEN play(s0, 0) ELSE play(s0, next_index)

next_track(s) ==
    LET s0 == Log(s, "next_track", s.current_index)
    IN  IF s.playlist = <<>> THEN s0
        ELSE IF s.shuffle_mode THEN play_random(s0)
        ELSE LET next_index == s.current_index + 1
             IN  IF next_index >= Len(s.playlist)
                 THEN IF s.repeat_mode = 2 THEN play(s0, 0) ELSE stop(s0)
                 ELSE play(s0, next_index)

\* play_random taking its first draw, equal to current_index or not
RandLoop_first(s) ==
    IF s.rnd = <<>> THEN [s EXCEPT !.stuck = TRUE]
    ELSE [s EXCEPT !.rnd = Tail(@), !.draw = Head(s.rnd)]

\* the draw loop of play_random: s.rnd holds the values randint returns next
RandLoop(s) ==
    IF s.rnd = <<>> THEN [s EXCEPT !.stuck = TRUE]
    ELSE LET next_index == Head(s.rnd)
             s1 == [s EXCEPT !.rnd = Tail(@)]
         IN  IF next_index = s.current_index /\ Len(s.playlist) > 1
             THEN RandLoop(s1)
             ELSE [s1 EXCEPT !.draw = next_index]

play_random(s) ==
    IF s.playlist = <<>> THEN s
    ELSE IF Len(s.playlist) = 1 THEN play(s, 0)
    ELSE LET s1 == RandLoop(s)
         IN  IF s1.stuck THEN s1 ELSE play(s1, s1.draw)

previous_track(s) ==
    IF s.playlist = <<>> THEN s
    ELSE IF s.shuffle_mode /\ s.play_history # <<>>
    THEN IF Len(s.play_history) > 1
         THEN LET h   == s.play_history
                  n   == Len(h)
              IN  play([s EXCEPT !.play_history = SubSeq(h, 1, n - 2)], h[n - 1])
         ELSE s
    ELSE LET prev_index == s.current_index - 1
         IN  IF prev_index < 0
             THEN IF s.repeat_mode = 2 THEN play(s, Len(s.playlist) - 1) ELSE stop(s)
             ELSE play(s, prev_index)

toggle_play_pause(s) ==
    IF s.current_index = -1
    THEN IF s.playlist # <<>> THEN play(s, 0) ELSE s
    ELSE IF get_busy(s.mixer, s.busy_paused)
    THEN IF s.paused
         THEN [Log(s, "unpause", s.current_index) EXCEPT
                  !.mixer = music_unpause(@), !.paused = FALSE]
         ELSE [Log(s, "pause", s.current_index) EXCEPT
                  !.mixer = music_pause(@), !.paused = TRUE]
    ELSE play(s, s.current_index)

\* set_playback_speed loading the song over the stream that is playing
set_playback_speed_over(s, speed) ==
    IF speed = 0 THEN s
    ELSE
      LET s1 == [s EXCEPT !.playback_speed = speed]
      IN  IF ~get_busy(s.mixer, s.busy_paused) THEN s1
          ELSE
            LET current_pos == get_pos(s.mixer)
                m1 == s.mixer
            IN  IF ~InRange(s.playlist, s.current_index) THEN Raise(s1, "IndexError")
                ELSE LET song == Item(s.playlist, s.current_index)
                     IN  IF ~song.ok THEN Raise(s1, "pygame.error")
                         ELSE [Log(Log(s1, "load", LoadCode(m1)), "start", s.current_index)
                                 EXCEPT !.mixer = music_play(music_load(m1, song),
                                                             current_pos \div speed)]

\* speed is 0 when the dialog is cancelled (askfloat returns None)
set_playback_speed(s, speed) ==
    IF speed = 0 THEN s
    ELSE
      LET s1 == [s EXCEPT !.playback_speed = speed]
      IN  IF ~get_busy(s.mixer, s.busy_paused) THEN s1
          ELSE
            LET current_pos == get_pos(s.mixer)
                m1 == music_stop(s.mixer)
                s2 == [s1 EXCEPT !.mixer = m1]
            IN  IF ~InRange(s.playlist, s.current_index) THEN Raise(s2, "IndexError")
                ELSE LET song == Item(s.playlist, s.current_index)
                     IN  IF ~song.ok THEN Raise(s2, "pygame.error")
                         ELSE [Log(Log(s2, "load", LoadCode(m1)), "start", s.current_index)
                                 EXCEPT !.mixer = music_play(music_load(m1, song),
                                                             current_pos \div speed)]

\* the user has dragged the scale, self.progress holds the fraction chosen
on_seek_release(s) ==
    IF s.current_index = -1 \/ s.playlist = <<>> THEN s
    ELSE IF ~InRange(s.playlist, s.current_index) THEN Raise(s, "IndexError")
    ELSE LET seek_pos    == s.progress
             song_length == Item(s.playlist, s.current_index).length
         IN  IF song_length > 0
             THEN LET new_pos == (seek_pos[1] * song_length) \div seek_pos[2]
                  IN  [Log(s, "seek", new_pos) EXCEPT !.mixer = music_set_pos(@, new_pos)]
             ELSE s

\* a widget built by setup_ui is used: before setup_ui has run the attribute
\* does not exist
Widget(s) == IF s.ui THEN s ELSE Raise(s, "AttributeError")

set_repeat_mode(s, mode) == Widget([s EXCEPT !.repeat_mode = mode])

cycle_repeat_mode(s) == set_repeat_mode(s, (s.repeat_mode + 1) % 3)

toggle_shuffle(s) == Widget([s EXCEPT !.shuffle_mode = ~@])

----------------------------------------------------------------------------
(* Volume.  Volumes are hundredths: 1.0 is 100, the Ctrl+Up step 0.1 is 10. *)

\* set_volume storing the requested value as it is
set_volume_asis(s, v) == Widget([s EXCEPT !.volume = v])

set_volume(s, v) == Widget([s EXCEPT !.volume = max(0, min(100, v))])

toggle_mute(s) ==
    IF s.volume > 0
    THEN set_volume([s EXCEPT !.last_volume = s.volume], 0)
    ELSE set_volume(s, IF s.last_volume # -1 THEN s.last_volume ELSE DEFAULT_VOLUME)

\* value: the position of the volume scale, 0 to 100
on_volume_change(s, value) == set_volume(s, (value * 100) \div 100)

----------------------------------------------------------------------------
(* Configuration file.  json.dump writes the five settings as a JSON       *)
(* object: numbers as numbers, booleans as the words true and false, the   *)
(* band list as an array; json.load reads them back.                       *)

json_bool(b) == IF b THEN "true" ELSE "false"

json_dump(config) ==
    [volume |-> config.volume, dark_mode |-> json_bool(config.dark_mode),
     repeat_mode |-> config.repeat_mode, shuffle_mode |-> json_bool(config.shuffle_mode),
     equalizer_bands |-> config.equalizer_bands]

json_load(text) ==
    [volume |-> text.volume, dark_mode |-> (text.dark_mode = "true"),
     repeat_mode |-> text.repeat_mode, shuffle_mode |-> (text.shuffle_mode = "true"),
     equalizer_bands |-> text.equalizer_bands]

save_config(s) ==
    [s EXCEPT !.config_file = <<
        json_dump([volume |-> s.volume, dark_mode |-> s.dark_mode,
                   repeat_mode |-> s.repeat_mode, shuffle_mode |-> s.shuffle_mode,
                   equalizer_bands |-> s.equalizer_bands]) >>]

\* load_config whose calls to set_volume, set_repeat_mode and toggle_shuffle
\* find their widgets
load_config_applied(s) ==
    IF s.config_file = NoFile THEN s
    ELSE
      LET config == json_load(s.config_file[1])
          s1 == [s EXCEPT !.volume = config.volume, !.dark_mode = config.dark_mode,
                          !.repeat_mode = config.repeat_mode,
                          !.shuffle_mode = config.shuffle_mode,
                          !.equalizer_bands = config.equalizer_bands,
                          !.ui = TRUE]
          s2 == set_repeat_mode(set_volume(s1, s1.volume), s1.repeat_mode)
      IN  [(IF s2.shuffle_mode THEN toggle_shuffle(s2) ELSE s2) EXCEPT !.ui = s.ui]

\* an exception raised by a call ends the try block; the handler prints it
load_config(s) ==
    IF s.config_file = NoFile THEN s
    ELSE
      LET config == json_load(s.config_file[1])
          s1 == [s EXCEPT !.volume = config.volume, !.dark_mode = config.dark_mode,
                          !.repeat_mode = config.repeat_mode,
                          !.shuffle_mode = config.shuffle_mode,
                          !.equalizer_bands = config.equalizer_bands]
          s2 == set_volume(s1, s1.volume)
          s3 == IF s2.exc # "none" THEN s2 ELSE set_repeat_mode(s2, s2.repeat_mode)
          s4 == IF s3.exc # "none" \/ ~s3.shuffle_mode THEN s3 ELSE toggle_shuffle(s3)
      IN  IF s4.exc # "none"
          THEN [Log(s4, "error", 0) EXCEPT !.exc = "none"]
          ELSE s4

\* apply_theme restyles the widgets
toggle_dark_mode(s) == save_config([s EXCEPT !.dark_mode = ~@])

\* "slider.set(0)" on equalizer slider i and the following ones.  callback:
\* whether ttk.Scale.set runs the scale's command when the value set is the
\* one the scale already has; Tk reports an exception of the command and
\* goes on
RECURSIVE set_sliders(_, _, _)
set_sliders(s, i, callback) ==
    IF i >= NUM_SLIDERS THEN s
    ELSE set_sliders(IF callback
                     THEN [on_equalizer_change(s, i, 0) EXCEPT !.exc = "none"]
                     ELSE s,
                     i + 1, callback)

\* the widgets are built from the settings; called once, from __init__ after
\* load_config.  "self.vol_slider.set(self.volume * 100)" runs
\* on_volume_change with the value just set
setup_ui(s, callback) ==
    LET s1 == on_volume_change([s EXCEPT !.ui = TRUE], (s.volume * 100) \div 100)
    IN  set_sliders(s1, 0, callback)

\* the thread is stopped, the settings are saved and the mixer is shut down
quit_app(s) == [save_config(s) EXCEPT !.mixer = MixerIdle]

----------------------------------------------------------------------------
(* Playlist handlers *)

\* the extensions add_to_playlist has a branch for
Readable(f) == f.ext \in {".mp3", ".flac", ".ogg", ".wav"}

add_to_playlist(s, file_paths) ==
    [s EXCEPT !.playlist = @ \o SelectSeq(file_paths, Readable)]

clear_playlist(s) ==
    IF s.playlist = <<>> THEN s
    ELSE [stop(s) EXCEPT !.playlist = <<>>, !.current_index = -1]

\* files: the supported files os.walk finds in the folder chosen
open_folder(s, files) ==
    IF files = <<>> THEN clear_playlist(s)
    ELSE play(add_to_playlist(clear_playlist(s), files), 0)

\* file: the file chosen in the dialog
open_file(s, file) == play(add_to_playlist(clear_playlist(s), <<file>>), 0)

\* files: what the user picks in the dialog of add_files
add_files(s, files) == IF files = <<>> THEN s ELSE add_to_playlist(s, files)

RECURSIVE sorted(_, _)
\* sorted(indices) and sorted(indices, reverse=True) of a set of row numbers
sorted(S, reverse) ==
    IF S = {} THEN <<>>
    ELSE LET m == IF reverse THEN CHOOSE x \in S : \A y \in S : y <= x
                  ELSE CHOOSE x \in S : \A y \in S : x <= y
         IN  <<m>> \o sorted(S \ {m}, reverse)

\* list.pop(index)
pop(list, index) == SubSeq(list, 1, index) \o SubSeq(list, index + 2, Len(list))

\* "list[i], list[j] = list[j], list[i]"
swap(list, i, j) ==
    [k \in DOMAIN list |-> IF k = i + 1 THEN list[j + 1]
                           ELSE IF k = j + 1 THEN list[i + 1] ELSE list[k]]

RECURSIVE selection_rows(_, _)
\* "indices = [self.playlist_tree.index(item) for item in selection]"
selection_rows(s, indices) ==
    IF indices = <<>> THEN s
    ELSE selection_rows(Log(s, "selected", Head(indices)), Tail(indices))

RECURSIVE remove_rows(_, _)

\* "for index in indices:" of remove_selected
remove_rows(s, indices) ==
    IF indices = <<>> THEN s
    ELSE LET index == Head(indices)
             s1 == IF index = s.current_index
                   THEN [stop(s) EXCEPT !.current_index = -1]
                   ELSE s
         IN  remove_rows(Log([s1 EXCEPT !.playlist = pop(@, index)], "remove", index),
                         Tail(indices))

\* selection: the rows selected in the playlist view
remove_selected(s, selection) ==
    IF selection = {} THEN s ELSE remove_rows(s, sorted(selection, TRUE))

RECURSIVE move_rows_up_fixed(_, _), move_rows_up(_, _), move_rows_down(_, _)

\* the loop of move_up leaving current_index alone
move_rows_up_fixed(s, indices) ==
    IF indices = <<>> THEN s
    ELSE LET index == Head(indices)
         IN  move_rows_up_fixed(Log([s EXCEPT !.playlist = swap(@, index, index - 1)],
                                    "move", index),
                                Tail(indices))

\* "for index in sorted(indices):" of move_up
move_rows_up(s, indices) ==
    IF indices = <<>> THEN s
    ELSE LET index == Head(indices)
             s1 == Log([s EXCEPT !.playlist = swap(@, index, index - 1)], "move", index)
             s2 == IF index = s1.current_index
                   THEN [s1 EXCEPT !.current_index = @ - 1]
                   ELSE IF index - 1 = s1.current_index
                   THEN [s1 EXCEPT !.current_index = @ + 1]
                   ELSE s1
         IN  move_rows_up(s2, Tail(indices))

move_up(s, selection) ==
    IF selection = {} THEN s
    ELSE LET s0 == selection_rows(s, sorted(selection, FALSE))
         IN  IF \E i \in selection : i = 0 THEN s0
             ELSE move_rows_up(s0, sorted(selection, FALSE))

\* "for index in sorted(indices, reverse=True):" of move_down
move_rows_down(s, indices) ==
    IF indices = <<>> THEN s
    ELSE LET index == Head(indices)
             s1 == Log([s EXCEPT !.playlist = swap(@, index, index + 1)], "move", index)
             s2 == IF index = s1.current_index
                   THEN [s1 EXCEPT !.current_index = @ + 1]
                   ELSE IF index + 1 = s1.current_index
                   THEN [s1 EXCEPT !.current_index = @ - 1]
                   ELSE s1
         IN  move_rows_down(s2, Tail(indices))

move_down(s, selection) ==
    IF selection = {} THEN s
    ELSE LET s0 == selection_rows(s, sorted(selection, FALSE))
         IN  IF \E i \in selection : i = Len(s.playlist) - 1 THEN s0
             ELSE move_rows_down(s0, sorted(selection, TRUE))

----------------------------------------------------------------------------
(* The state machine *)

\* the application state a handler starts from; rnd: what randint will return
State(rnd) ==
    [playlist |-> playlist, current_index |-> current_index, paused |-> paused,
     repeat_mode |-> repeat_mode, shuffle_mode |-> shuffle_mode,
     play_history |-> play_history, playback_speed |-> playback_speed,
     mixer |-> mixer, progress |-> progress, time_elapsed |-> time_elapsed,
     timers |-> timers, busy_paused |-> busy_paused,
     volume |-> volume, last_volume |-> last_volume,
     equalizer_bands |-> equalizer_bands, dark_mode |-> dark_mode,
     visualization_data |-> visualization_data, config_file |-> config_file,
     ui |-> TRUE,
     exc |-> "none", depth |-> 0, rnd |-> rnd, draw |-> -1, stuck |-> FALSE,
     log |-> <<>>]

\* update_progress, were it to run now, would find the track at its end
AtEnd ==
    /\ current_index >= 0 /\ current_index < Len(playlist)
    /\ get_busy(mixer, busy_paused) /\ ~paused
    /\ playlist[current_index + 1].length > 0
    /\ get_pos(mixer) >= playlist[current_index + 1].length - END_BUFFER

\* the handler op has returned r (an exception that escapes a Tk callback is
\* reported and dropped).  Draws that never leave the loop of play_random and
\* runs with more than cap pending polls are not followed.
Commit(r, op, cap) ==
    /\ ~r.stuck
    /\ r.timers <= cap
    /\ playlist' = r.playlist
    /\ current_index' = r.current_index
    /\ paused' = r.paused
    /\ repeat_mode' = r.repeat_mode
    /\ shuffle_mode' = r.shuffle_mode
    /\ play_history' = r.play_history
    /\ playback_speed' = r.playback_speed
    /\ mixer' = r.mixer
    /\ progress' = r.progress
    /\ time_elapsed' = r.time_elapsed
    /\ timers' = r.timers
    /\ volume' = r.volume
    /\ last_volume' = r.last_volume
    /\ equalizer_bands' = r.equalizer_bands
    /\ dark_mode' = r.dark_mode
    /\ visualization_data' = r.visualization_data
    /\ config_file' = r.config_file
    /\ last' = [op |-> op, log |-> r.log, exc |-> r.exc]
    /\ user_stopped' = IF op = "stop"
                       THEN IF AtEnd THEN "at_end" ELSE "stopped"
                       ELSE IF r.mixer.st # "stopped" THEN "no" ELSE user_stopped
    /\ rand_index' = NoDraw
    /\ UNCHANGED <<busy_paused, viz_ready, tray_icon>>

\* the values random.randint(0, n - 1) may return during one handler
Draws(n) == IF shuffle_mode /\ n > 1 THEN [1..MaxDraws -> 0..(n - 1)] ELSE {<<>>}

\* the folders the user opens
Folders == { <<SongA, SongB, SongC>>, <<SongA, SongX, SongB>>, <<SongS, SongA>>, <<SongA>> }

Speeds == {0, 1, 2}

\* positions of the volume scale the user drags it to
ScalePositions == {0, 35, 100}

\* values the equalizer sliders deliver (from_=-12, to=12)
EqValues == {-12, 12}

\* settings files not written by save_config: volume and gains out of range
ConfigFiles ==
    { json_dump([volume |-> 150, dark_mode |-> TRUE, repeat_mode |-> 1,
                 shuffle_mode |-> TRUE,
                 equalizer_bands |-> [b \in 1..NUM_BANDS |->
                                        IF b = 1 THEN 20 ELSE IF b = NUM_BANDS THEN -30 ELSE 0]]),
      json_dump([volume |-> -50, dark_mode |-> FALSE, repeat_mode |-> 0,
                 shuffle_mode |-> FALSE,
                 equalizer_bands |-> [b \in 1..NUM_BANDS |-> 0]]) }

\* the player state __init__ leaves (no configuration file present)
Fresh(busyPaused) ==
    [playlist |-> <<>>, current_index |-> -1, paused |-> FALSE,
     repeat_mode |-> 0, shuffle_mode |-> FALSE,
     play_history |-> <<>>, playback_speed |-> 1,
     mixer |-> MixerIdle, progress |-> <<0, 1>>, time_elapsed |-> 0,
     timers |-> 0, busy_paused |-> busyPaused,
     volume |-> DEFAULT_VOLUME, last_volume |-> -1,
     equalizer_bands |-> [b \in 1..NUM_BANDS |-> 0], dark_mode |-> FALSE,
     visualization_data |-> [k \in 1..VISUALIZATION_SAMPLES |-> 0],
     config_file |-> NoFile,
     ui |-> TRUE,
     exc |-> "none", depth |-> 0, rnd |-> <<>>, draw |-> -1, stuck |-> FALSE,
     log |-> <<>>]

\* the variables hold the player state r
Holds(r) ==
    /\ playlist = r.playlist
    /\ current_index = r.current_index
    /\ paused = r.paused
    /\ repeat_mode = r.repeat_mode
    /\ shuffle_mode = r.shuffle_mode
    /\ play_history = r.play_history
    /\ playback_speed = r.playback_speed
    /\ mixer = r.mixer
    /\ progress = r.progress
    /\ time_elapsed = r.time_elapsed
    /\ timers = r.timers
    /\ busy_paused = r.busy_paused
    /\ volume = r.volume
    /\ last_volume = r.last_volume
    /\ equalizer_bands = r.equalizer_bands
    /\ dark_mode = r.dark_mode
    /\ visualization_data = r.visualization_data
    /\ config_file = r.config_file
    /\ viz_ready = FALSE
    /\ rand_index = NoDraw

\* the player started on Linux, where setup_system_tray returns at once
Init ==
    /\ \E bp \in BOOLEAN : Holds(Fresh(bp))
    /\ tray_icon = FALSE
    /\ polled = FALSE
    /\ user_stopped = "no"
    /\ last = [op |-> "init", log |-> <<>>, exc |-> "none"]

OpenFolder ==
    \E files \in Folders : \E rnd \in Draws(Len(files)) :
        /\ Commit(open_folder(State(rnd), files), "open_folder", MaxTimers)
        /\ UNCHANGED polled

PlaySelected ==
    \E index \in 0..(Len(playlist) - 1) : \E rnd \in Draws(Len(playlist)) :
        /\ Commit(play(State(rnd), index), "play", MaxTimers)
        /\ UNCHANGED polled

TogglePlayPause ==
    \E rnd \in Draws(Len(playlist)) :
        /\ Commit(toggle_play_pause(State(rnd)), "toggle_play_pause", MaxTimers)
        /\ UNCHANGED polled

Stop ==
    /\ Commit(stop(State(<<>>)), "stop", MaxTimers)
    /\ UNCHANGED polled

NextTrack ==
    \E rnd \in Draws(Len(playlist)) :
        /\ Commit(next_track(State(rnd)), "next_track", MaxTimers)
        /\ UNCHANGED polled

PreviousTrack ==
    \E rnd \in Draws(Len(playlist)) :
        /\ Commit(previous_track(State(rnd)), "previous_track", MaxTimers)
        /\ UNCHANGED polled

CycleRepeatMode ==
    /\ Commit(cycle_repeat_mode(State(<<>>)), "cycle_repeat_mode", MaxTimers)
    /\ UNCHANGED polled

ToggleShuffle ==
    /\ Commit(toggle_shuffle(State(<<>>)), "toggle_shuffle", MaxTimers)
    /\ UNCHANGED polled

SetPlaybackSpeed ==
    \E speed \in Speeds :
        /\ Commit(set_playback_speed(State(<<>>), speed), "set_playback_speed", MaxTimers)
        /\ UNCHANGED polled

\* the user drags the scale to tick k of the current song and releases it
SeekRelease ==
    /\ current_index >= 0 /\ current_index < Len(playlist)
    /\ \E k \in 0..(playlist[current_index + 1].length - 1) :
         /\ Commit(on_seek_release([State(<<>>) EXCEPT
                       !.progress = <<k, playlist[current_index + 1].length>>]),
                   "on_seek_release", MaxTimers)
         /\ UNCHANGED polled

\* a pending update_progress callback fires
Poll ==
    /\ timers > 0
    /\ \E rnd \in Draws(Len(playlist)) :
         Commit(update_progress([State(rnd) EXCEPT !.timers = @ - 1]), "update_progress", MaxTimers)
    /\ polled' = TRUE

\* half a second of the stream is played, up to the reading maxPos of get_pos
Elapse(maxPos) ==
    /\ mixer.st = "playing"
    /\ mixer.pos < maxPos
    /\ timers = 0 \/ polled
    /\ mixer' = music_advance(mixer)
    /\ polled' = FALSE
    /\ last' = [op |-> "tick", log |-> <<>>, exc |-> "none"]
    /\ UNCHANGED <<playlist, current_index, paused, repeat_mode, shuffle_mode, play_history,
                   playback_speed, progress, time_elapsed, timers, busy_paused,
                   volume, last_volume, equalizer_bands, dark_mode, visualization_data,
                   viz_ready, config_file, tray_icon, rand_index, user_stopped>>

\* half a second passes
Tick == Elapse(MaxPos)

\* the process is running and __init__ has returned
Ready == last.op \notin {"quit_app", "edit_config", "load_config"}

\* Ctrl+Up
VolumeUp ==
    /\ Commit(set_volume(State(<<>>), volume + 10), "volume_up", MaxTimers)
    /\ UNCHANGED polled

\* Ctrl+Down
VolumeDown ==
    /\ Commit(set_volume(State(<<>>), volume - 10), "volume_down", MaxTimers)
    /\ UNCHANGED polled

OnVolumeChange ==
    \E value \in ScalePositions :
        /\ Commit(on_volume_change(State(<<>>), value), "on_volume_change", MaxTimers)
        /\ UNCHANGED polled

ToggleMute ==
    /\ Commit(toggle_mute(State(<<>>)), "toggle_mute", MaxTimers)
    /\ UNCHANGED polled

\* the user moves one of the equalizer sliders followed
OnEqualizerChange(sliders) ==
    \E band_idx \in sliders : \E value \in EqValues :
        /\ Commit(on_equalizer_change(State(<<>>), band_idx, value),
                  "on_equalizer_change", MaxTimers)
        /\ UNCHANGED polled

ToggleDarkMode ==
    /\ Commit(toggle_dark_mode(State(<<>>)), "toggle_dark_mode", MaxTimers)
    /\ UNCHANGED polled

\* the process ends; the variables keep the values it ended with
QuitApp ==
    /\ Commit(quit_app(State(<<>>)), "quit_app", MaxTimers)
    /\ UNCHANGED polled

\* between two runs the user replaces the settings file
EditConfig ==
    /\ last.op = "quit_app"
    /\ \E f \in ConfigFiles : config_file' = <<f>>
    /\ last' = [op |-> "edit_config", log |-> <<>>, exc |-> "none"]
    /\ UNCHANGED <<playlist, current_index, paused, repeat_mode, shuffle_mode, play_history,
                   playback_speed, mixer, progress, time_elapsed, timers, polled,
                   busy_paused, volume, last_volume, equalizer_bands, dark_mode,
                   visualization_data, viz_ready, tray_icon, rand_index, user_stopped>>

\* the next start: __init__ sets the defaults and calls load_config
LoadConfig ==
    /\ last.op \in {"quit_app", "edit_config"}
    /\ Commit(load_config([Fresh(busy_paused) EXCEPT
                              !.ui = FALSE, !.config_file = config_file]),
              "load_config", MaxTimers)
    /\ polled' = FALSE

\* __init__ goes on with setup_ui
SetupUi ==
    /\ last.op = "load_config"
    /\ \E callback \in BOOLEAN :
         Commit(setup_ui([State(<<>>) EXCEPT !.ui = FALSE], callback), "setup_ui", MaxTimers)
    /\ UNCHANGED polled

Next ==
    \/ OpenFolder
    \/ PlaySelected
    \/ TogglePlayPause
    \/ Stop
    \/ NextTrack
    \/ PreviousTrack
    \/ CycleRepeatMode
    \/ ToggleShuffle
    \/ Poll
    \/ Tick

Spec == Init /\ [][Next]_vars

\* the player with the seek bar and the playback-speed dialog in use
SeekNext ==
    \/ OpenFolder
    \/ TogglePlayPause
    \/ Stop
    \/ CycleRepeatMode
    \/ SetPlaybackSpeed
    \/ SeekRelease
    \/ Poll
    \/ Tick

SpecSeek == Init /\ [][SeekNext]_vars

\* the volume controls, over several runs of the program
VolumeNext ==
    \/ Ready /\ VolumeUp
    \/ Ready /\ VolumeDown
    \/ Ready /\ OnVolumeChange
    \/ Ready /\ ToggleMute
    \/ Ready /\ QuitApp
    \/ EditConfig
    \/ LoadConfig
    \/ SetupUi

SpecVolume == Init /\ [][VolumeNext]_vars

\* the settings kept in the configuration file, over several runs
ConfigNext ==
    \/ Ready /\ VolumeUp
    \/ Ready /\ OnEqualizerChange({0})
    \/ Ready /\ ToggleDarkMode
    \/ Ready /\ CycleRepeatMode
    \/ Ready /\ ToggleShuffle
    \/ Ready /\ QuitApp
    \/ EditConfig
    \/ LoadConfig
    \/ SetupUi

SpecConfig == Init /\ [][ConfigNext]_vars

\* the equalizer sliders while tracks play
EqNext ==
    \/ OpenFolder
    \/ TogglePlayPause
    \/ Stop
    \/ OnEqualizerChange({0, NUM_SLIDERS - 1})
    \/ Poll
    \/ Tick

SpecEq == Init /\ [][EqNext]_vars

----------------------------------------------------------------------------
(* Properties.  last.log lists, in order, what the handler that ran last   *)
(* did: "play" i (play(i) called), "load", "start" i (mixer.music.play()    *)
(* for track i), "error" (the except clause of play), "ended" i             *)
(* (update_progress found track i at its end, preceded by "pos" p, the      *)
(* value of get_pos, and "left" n, the ticks of the stream still unplayed), *)
(* "next_track" i (entered with current_index = i), "stop", "pause",        *)
(* "unpause", "seek".                                                       *)

Ev(e, i) == [e |-> e, i |-> i]

\* the positions of last.log after k where play is called
PlaysAfter(k) == {j \in DOMAIN last.log : j > k /\ last.log[j].e = "play"}

\* the entry that follows entry k of last.log is ev
FollowedBy(k, ev) == k < Len(last.log) /\ last.log[k + 1] = ev

\* C1: when update_progress finds the playing track i at its end and
\* repeat_mode is 1, it calls play(i) and current_index is i afterwards,
\* whatever the shuffle mode and the length of the playlist.
C1_RepeatSingleReselects ==
    \A k \in DOMAIN last.log :
        (last.log[k].e = "ended" /\ repeat_mode = 1)
            => /\ FollowedBy(k, Ev("play", last.log[k].i))
               /\ current_index = last.log[k].i

C1_Witness ==
    /\ last.op = "update_progress"
    /\ repeat_mode = 1 /\ shuffle_mode /\ Len(playlist) = 3
    /\ Len(last.log) >= 4 /\ last.log[3] = Ev("ended", 1) /\ last.log[4] = Ev("play", 1)
    /\ current_index = 1 /\ mixer.st = "playing" /\ mixer.pos = 0

\* C2: with repeat_mode = 2 and shuffle off, next_track entered while
\* current_index is the last index of a non-empty playlist calls play(0), and
\* current_index is 0 once that call has returned (unless track 0 itself ended
\* at once and the player moved on).
C2_RepeatAllWraps ==
    \A k \in DOMAIN last.log :
        (/\ last.log[k] = Ev("next_track", Len(playlist) - 1)
         /\ playlist # <<>> /\ repeat_mode = 2 /\ ~shuffle_mode)
            => /\ FollowedBy(k, Ev("play", 0))
               /\ (PlaysAfter(k + 1) = {} => current_index = 0)

C2_Witness ==
    /\ last.op = "next_track"
    /\ repeat_mode = 2 /\ ~shuffle_mode /\ Len(playlist) = 3
    /\ last.log[1] = Ev("next_track", 2) /\ last.log[2] = Ev("play", 0)
    /\ current_index = 0 /\ mixer.st = "playing" /\ mixer.loaded = playlist[1]

\* C3: with shuffle on and more than one song in the playlist, the index
\* next_track selects through play_random differs from the value current_index
\* had when next_track was entered.
C3_ShuffleAvoidsCurrent ==
    \A k \in DOMAIN last.log :
        (last.log[k].e = "next_track" /\ shuffle_mode /\ Len(playlist) > 1)
            => /\ k < Len(last.log)
               /\ last.log[k + 1].e = "play"
               /\ last.log[k + 1].i # last.log[k].i
               /\ last.log[k + 1].i \in 0..(Len(playlist) - 1)

C3_Witness ==
    /\ last.op = "next_track" /\ shuffle_mode /\ Len(playlist) = 3
    /\ last.log[1] = Ev("next_track", 1) /\ last.log[2] = Ev("play", 2)
    /\ current_index = 2

\* C4: with shuffle off, next_track calls play(current_index + 1) whenever
\* that index exists; at the last index it calls play(0) if repeat_mode is 2,
\* and otherwise it selects nothing: it stops playback and leaves
\* current_index as it was.
C4_SequentialAdvance ==
    \A k \in DOMAIN last.log :
        (last.log[k].e = "next_track" /\ ~shuffle_mode /\ playlist # <<>>)
            => LET c == last.log[k].i
               IN  IF c + 1 < Len(playlist) THEN FollowedBy(k, Ev("play", c + 1))
                   ELSE IF repeat_mode = 2 THEN FollowedBy(k, Ev("play", 0))
                   ELSE /\ FollowedBy(k, Ev("stop", c))
                        /\ PlaysAfter(k) = {}
                        /\ mixer.st = "stopped"
                        /\ current_index = c

C4_Witness ==
    /\ last.op = "update_progress" /\ ~shuffle_mode /\ repeat_mode = 0
    /\ Len(playlist) = 3
    /\ last.log = <<Ev("pos", 1), Ev("left", 1), Ev("ended", 2), Ev("next_track", 2),
                   Ev("stop", 2)>>
    /\ current_index = 2 /\ mixer.st = "stopped"

\* what a handler does to repeat or advance
AutoCalls == {"ended", "next_track", "play", "load", "start"}

\* C6: once stop() has run, the poll neither repeats nor advances until a
\* user command starts playback again: a poll that runs after stop() calls
\* nothing, leaves the mixer stopped and current_index and the history as
\* they are, also when stop() came while the track was at its end.
C6_StopWins ==
    [][(user_stopped # "no" /\ last'.op = "update_progress")
          => /\ \A k \in DOMAIN last'.log : last'.log[k].e \notin AutoCalls
             /\ mixer'.st = "stopped"
             /\ current_index' = current_index
             /\ play_history' = play_history
             /\ user_stopped' = user_stopped]_vars

C6_Witness ==
    /\ user_stopped = "at_end"
    /\ last.op = "update_progress"
    /\ timers > 0 /\ mixer.st = "stopped" /\ current_index = 1

LoadFailed(k) ==
    /\ k > 1
    /\ last.log[k].e = "error"
    /\ last.log[k - 1] = Ev("play", last.log[k].i)

FracLE(p, q) == p[1] * q[2] <= q[1] * p[2]

\* a step of pause, resume, polling or time on one track that is loaded and
\* has not reached its end
OnOneTrack ==
    /\ last'.op \in {"toggle_play_pause", "update_progress", "tick"}
    /\ mixer.st # "stopped" /\ mixer'.st # "stopped"
    /\ current_index' = current_index
    /\ \A k \in DOMAIN last'.log : last'.log[k].e # "ended"

\* C10 as claimed: over any sequence of pause and resume on one track the
\* position shown by update_progress (progress bar and elapsed time) never
\* decreases while the track plays and does not change while it is paused.
C10_AsClaimed ==
    [][OnOneTrack
          => /\ FracLE(progress, progress')
             /\ time_elapsed' >= time_elapsed
             /\ (paused /\ paused' => progress' = progress)]_vars

----------------------------------------------------------------------------
(* The scenario of a three-track album played with repeat-all and no user  *)
(* command: only time and the poll act.                                    *)

\* pending polls followed in the scenario
MaxScenarioTimers == 7

\* the largest reading of get_pos followed in the scenario (half seconds)
MaxScenarioPos == 8

\* 3.0 s, 2.0 s and 4.0 s
TrackA == Song("A", ".mp3", 6, TRUE)
TrackB == Song("B", ".mp3", 4, TRUE)
TrackC == Song("C", ".mp3", 8, TRUE)

Album == <<TrackA, TrackB, TrackC>>

\* repeat-all chosen (cycle_repeat_mode twice), then the album opened
ScenarioInit ==
    /\ \E bp \in BOOLEAN :
         Holds(open_folder(cycle_repeat_mode(cycle_repeat_mode(Fresh(bp))), Album))
    /\ tray_icon = FALSE
    /\ polled = FALSE
    /\ user_stopped = "no"
    /\ last = [op |-> "open_folder", log |-> <<>>, exc |-> "none"]

ScenarioPoll ==
    /\ timers > 0
    /\ Commit(update_progress([State(<<>>) EXCEPT !.timers = @ - 1]), "update_progress",
              MaxScenarioTimers)
    /\ polled' = TRUE

ScenarioTick == Elapse(MaxScenarioPos)

ScenarioNext == ScenarioPoll \/ ScenarioTick

\* time passes and Tk runs the timer callbacks that are due
SpecScenario ==
    ScenarioInit /\ [][ScenarioNext]_vars /\ WF_vars(ScenarioTick) /\ WF_vars(ScenarioPoll)

\* the tracks started so far are the album in order, over and over
InAlbumOrder == \A k \in DOMAIN play_history : play_history[k] = (k - 1) % 3

\* a poll starts a track only on finding the one before it at its end
StartsOnlyAtEnd ==
    (last.op = "update_progress" /\ \E k \in DOMAIN last.log : last.log[k].e = "start")
        => \E k \in DOMAIN last.log : last.log[k].e = "ended"

\* every track cut off by the poll had at most END_BUFFER ticks left to play
CutWithinBuffer ==
    \A k \in DOMAIN last.log : last.log[k].e = "left" => last.log[k].i <= END_BUFFER

\* A has been selected again after C and plays from position 0
Reselected ==
    /\ play_history = <<0, 1, 2, 0>>
    /\ current_index = 0
    /\ mixer.loaded = TrackA /\ mixer.st = "playing" /\ mixer.pos = 0 /\ mixer.real = 0

----------------------------------------------------------------------------
(* Seeking *)

\* the position on_seek_release handed to set_pos in the handler that ran last
SeekTarget == { last.log[k].i : k \in { j \in DOMAIN last.log : last.log[j].e = "seek" } }

\* the poll that follows a seek on a playing track at once (less than one
\* polling interval later) and does not find the track at its end
PollAfterSeek ==
    /\ last.op = "on_seek_release" /\ SeekTarget # {}
    /\ mixer.st = "playing" /\ ~paused
    /\ last'.op = "update_progress"
    /\ current_index' = current_index
    /\ \A k \in DOMAIN last'.log : last'.log[k].e # "ended"

\* C11 as claimed: after on_seek_release has moved the current track to position
\* f, the position update_progress reports next (progress bar, elapsed time) is
\* f plus the time played since the seek, to within one polling interval.
C11_AsClaimed ==
    [][PollAfterSeek
          => \A f \in SeekTarget :
                /\ progress'[1] * playlist[current_index + 1].length = f * progress'[2]
                /\ time_elapsed' = format_time(f)]_vars

----------------------------------------------------------------------------
(* Transport states *)

\* the handler that has just run started a stream (mixer.music.play)
Started == \E k \in DOMAIN last'.log : last'.log[k].e = "start"

\* C12 as claimed: toggle_play_pause on a playing track pauses it;
\* toggle_play_pause on a paused track resumes the same track from the paused
\* position without restarting it; stop from either state ends playback with
\* paused = False and current_index unchanged.
C12_AsClaimed ==
    [][/\ (last'.op = "toggle_play_pause" /\ mixer.st = "playing" /\ ~paused)
            => /\ mixer'.st = "paused" /\ paused'
               /\ mixer'.real = mixer.real /\ current_index' = current_index
       /\ (last'.op = "toggle_play_pause" /\ mixer.st = "paused" /\ paused)
            => /\ mixer'.st = "playing" /\ ~paused'
               /\ ~Started
               /\ mixer'.real = mixer.real /\ mixer'.loaded = mixer.loaded
               /\ current_index' = current_index
       /\ (last'.op = "stop" /\ mixer.st \in {"playing", "paused"})
            => /\ mixer'.st = "stopped" /\ ~paused'
               /\ current_index' = current_index]_vars

----------------------------------------------------------------------------
(* Settings *)

\* the five settings save_config writes
Settings ==
    [volume |-> volume, dark_mode |-> dark_mode, repeat_mode |-> repeat_mode,
     shuffle_mode |-> shuffle_mode, equalizer_bands |-> equalizer_bands]

Clamped(v) == IF v < 0 THEN 0 ELSE IF v > 100 THEN 100 ELSE v

\* C14: the volume is within [0.0, 1.0] in every reachable state, and a value
\* requested by the slider, Ctrl+Up/Down, the mute toggle or a loaded
\* configuration is brought into that range, not refused.
C14_VolumeInRange ==
    /\ [](volume \in 0..100)
    /\ [][/\ last'.op = "volume_up" => volume' = Clamped(volume + 10)
          /\ last'.op = "volume_down" => volume' = Clamped(volume - 10)
          /\ last'.op = "on_volume_change" => volume' \in ScalePositions
          /\ last'.op = "toggle_mute"
                => /\ volume > 0 => volume' = 0 /\ last_volume' = volume
                   /\ volume = 0 => volume' = IF last_volume = -1 THEN DEFAULT_VOLUME
                                                                   ELSE last_volume
          /\ (last'.op = "load_config" /\ config_file # NoFile)
                => volume' = Clamped(json_load(config_file[1]).volume)]_vars

\* a request above the range has been clamped: a configuration with volume
\* 1.5 was loaded
C14_Witness ==
    /\ last.op = "load_config" /\ config_file # NoFile
    /\ json_load(config_file[1]).volume = 150 /\ volume = 100

\* C15 as claimed: every equalizer band gain is within [-12, +12] dB in every
\* reachable state, a value out of range that arrives through
\* on_equalizer_change or a loaded configuration being clamped.
C15_AsClaimed ==
    \A b \in DOMAIN equalizer_bands : equalizer_bands[b] \in -12..12

----------------------------------------------------------------------------
(* Play history *)

\* the positions in the log of the handler that ran last where a track started
Starts == { k \in DOMAIN last.log : last.log[k].e = "start" }

\* the index of the track started most recently by that handler
LastStarted == last.log[CHOOSE k \in Starts : \A j \in Starts : j <= k].i

\* C16 as claimed: play_history never holds more than HISTORY_SIZE entries,
\* and after a handler that started a track its last entry is the index of
\* the track started most recently.
C16_AsClaimed ==
    /\ Len(play_history) <= HISTORY_SIZE
    /\ Starts # {} => /\ play_history # <<>>
                      /\ play_history[Len(play_history)] = LastStarted

----------------------------------------------------------------------------
(* Going back through the history in shuffle mode: one folder, the          *)
(* commands next and previous, and enough pending polls for a few tracks.   *)

\* pending polls followed while retracing
MaxRetraceTimers == 5

\* a folder whose first track is no longer than the end buffer
RetraceFolder == <<SongS, SongA, SongB>>

RetraceOpenFolder ==
    \E rnd \in Draws(Len(RetraceFolder)) :
        /\ Commit(open_folder(State(rnd), RetraceFolder), "open_folder", MaxRetraceTimers)
        /\ UNCHANGED polled

RetraceNextTrack ==
    \E rnd \in Draws(Len(playlist)) :
        /\ Commit(next_track(State(rnd)), "next_track", MaxRetraceTimers)
        /\ UNCHANGED polled

RetracePreviousTrack ==
    \E rnd \in Draws(Len(playlist)) :
        /\ Commit(previous_track(State(rnd)), "previous_track", MaxRetraceTimers)
        /\ UNCHANGED polled

RetracePoll ==
    /\ timers > 0
    /\ \E rnd \in Draws(Len(playlist)) :
         Commit(update_progress([State(rnd) EXCEPT !.timers = @ - 1]), "update_progress",
                MaxRetraceTimers)
    /\ polled' = TRUE

RetraceNext ==
    \/ RetraceOpenFolder
    \/ ToggleShuffle
    \/ RetraceNextTrack
    \/ RetracePreviousTrack
    \/ RetracePoll
    \/ Tick

SpecRetrace == Init /\ [][RetraceNext]_vars

\* the index of the first track the handler that has just run started, -1 if
\* it started none
FirstStarted ==
    LET ks == { k \in DOMAIN last'.log : last'.log[k].e = "start" }
    IN  IF ks = {} THEN -1
        ELSE last'.log[CHOOSE k \in ks : \A j \in ks : k <= j].i

\* C17 as claimed: in shuffle mode, with the history i1, ..., ik (k >= 2),
\* previous_track starts i(k-1) and leaves the history i1, ..., i(k-1), so
\* that the next previous_track steps one entry further back; with only the
\* first recorded track left it changes nothing.
C17_AsClaimed ==
    [][(last'.op = "previous_track" /\ shuffle_mode /\ playlist # <<>>)
          => LET h == play_history
                 n == Len(play_history)
             IN  /\ n >= 2 => /\ FirstStarted = h[n - 1]
                              /\ play_history' = SubSeq(h, 1, n - 1)
                 /\ n = 1 => /\ play_history' = h
                             /\ current_index' = current_index
                             /\ mixer' = mixer]_vars

----------------------------------------------------------------------------
(* Equalizer *)

\* apply_equalizer went past its guard and computed the gains
GainsComputed(log) == \E k \in DOMAIN log : log[k].e = "band_gains"

----------------------------------------------------------------------------
(* File formats: folders and single files of every supported extension     *)

\* the folders opened, by the supported files found in them
FormatFolders == { <<SongM>>, <<SongA, SongM>>, <<SongC, SongB>> }

\* the files opened on their own
FormatFiles == { SongM, SongB }

FormatOpenFolder ==
    \E files \in FormatFolders :
        /\ \A k \in DOMAIN files : files[k].ext \in SUPPORTED_FORMATS
        /\ Commit(open_folder(State(<<>>), files), "open_folder", MaxTimers)
        /\ UNCHANGED polled

OpenFile ==
    \E file \in FormatFiles :
        /\ file.ext \in SUPPORTED_FORMATS
        /\ Commit(open_file(State(<<>>), file), "open_file", MaxTimers)
        /\ UNCHANGED polled

FormatNext ==
    \/ FormatOpenFolder
    \/ OpenFile
    \/ TogglePlayPause
    \/ Stop
    \/ Poll
    \/ Tick

SpecFormats == Init /\ [][FormatNext]_vars

\* C19 as claimed: open_folder and open_file on existing files with supported
\* extensions put every one of these files into the playlist, so that the
\* playlist is not empty and track 0 is selected.
C19_AsClaimed ==
    [][/\ last'.op = "open_folder" => /\ playlist' \in FormatFolders
                                      /\ current_index' = 0
       /\ last'.op = "open_file" => /\ \E file \in FormatFiles : playlist' = <<file>>
                                    /\ current_index' = 0]_vars

----------------------------------------------------------------------------
(* The visualization thread.  One turn of the loop of update_visualization  *)
(* is two steps, the test of the mixer and of self.paused and the append:   *)
(* the GUI thread can run between them.  A turn whose test fails changes    *)
(* nothing.                                                                  *)

\* values appended in one run
MaxSamples == 3

\* values of np.random.rand(1) * 100 followed
Samples == {50, 99}

\* "if mixer.music.get_busy() and not self.paused" is found true
VisualizationCheck ==
    /\ ~viz_ready
    /\ get_busy(mixer, busy_paused) /\ ~paused
    /\ viz_ready' = TRUE
    /\ last' = [op |-> "update_visualization", log |-> <<>>, exc |-> "none"]
    /\ UNCHANGED <<playlist, current_index, paused, repeat_mode, shuffle_mode, play_history,
                   playback_speed, mixer, progress, time_elapsed, timers, polled,
                   busy_paused, volume, last_volume, equalizer_bands, dark_mode,
                   visualization_data, config_file, tray_icon, rand_index, user_stopped>>

\* "self.visualization_data.append(new_data[0])"
VisualizationAppend ==
    /\ viz_ready
    /\ Cardinality({k \in DOMAIN visualization_data : visualization_data[k] # 0}) < MaxSamples
    /\ \E new_data \in Samples :
         visualization_data' = viz_append(visualization_data, new_data)
    /\ viz_ready' = FALSE
    /\ last' = [op |-> "update_visualization", log |-> <<>>, exc |-> "none"]
    /\ UNCHANGED <<playlist, current_index, paused, repeat_mode, shuffle_mode, play_history,
                   playback_speed, mixer, progress, time_elapsed, timers, polled,
                   busy_paused, volume, last_volume, equalizer_bands, dark_mode,
                   config_file, tray_icon, rand_index, user_stopped>>

VisualizationNext ==
    \/ OpenFolder
    \/ TogglePlayPause
    \/ Stop
    \/ Poll
    \/ Tick
    \/ VisualizationCheck
    \/ VisualizationAppend

SpecVisualization == Init /\ [][VisualizationNext]_vars

\* C20 as claimed: visualization_data holds exactly VISUALIZATION_SAMPLES
\* values in every reachable state, every value lies between 0 and 100, and
\* the buffer is not modified while playback is paused or stopped.
C20_AsClaimed ==
    /\ [](/\ Len(visualization_data) = VISUALIZATION_SAMPLES
          /\ \A k \in DOMAIN visualization_data : visualization_data[k] \in 0..100)
    /\ [][(paused \/ mixer.st # "playing")
             => visualization_data' = visualization_data]_vars

----------------------------------------------------------------------------
(* Threads.  Besides the Tk mainloop the program starts the visualization  *)
(* thread and, except on Linux, the thread of the system-tray icon, whose   *)
(* menu entries are the bound methods toggle_play_pause, next_track and     *)
(* previous_track: pystray calls them on the thread of the icon.            *)

Platforms == {"Linux", "Windows", "Darwin"}

\* setup_system_tray: the icon and its thread exist afterwards; created is
\* false when building the icon raises
setup_system_tray(platform, created) == platform # "Linux" /\ created

\* the player started on any platform
TrayInit ==
    /\ \E bp \in BOOLEAN : Holds(Fresh(bp))
    /\ \E platform \in Platforms : \E created \in BOOLEAN :
         tray_icon = setup_system_tray(platform, created)
    /\ polled = FALSE
    /\ user_stopped = "no"
    /\ last = [op |-> "init", log |-> <<>>, exc |-> "none"]

\* the menu entry 'Play/Pause' of the tray icon, run by the thread of the icon
TrayTogglePlayPause ==
    /\ tray_icon
    /\ Commit(toggle_play_pause(State(<<>>)), "tray_icon.toggle_play_pause", MaxTimers)
    /\ UNCHANGED polled

\* the menu entry 'Next'
TrayNextTrack ==
    /\ tray_icon
    /\ Commit(next_track(State(<<>>)), "tray_icon.next_track", MaxTimers)
    /\ UNCHANGED polled

\* the menu entry 'Previous'
TrayPreviousTrack ==
    /\ tray_icon
    /\ Commit(previous_track(State(<<>>)), "tray_icon.previous_track", MaxTimers)
    /\ UNCHANGED polled

\* the steps taken by a thread other than the one of the Tk mainloop
OffGuiThread ==
    {"update_visualization", "tray_icon.toggle_play_pause", "tray_icon.next_track",
     "tray_icon.previous_track"}

TrayNext ==
    \/ OpenFolder
    \/ TogglePlayPause
    \/ Stop
    \/ Poll
    \/ Tick
    \/ VisualizationCheck
    \/ VisualizationAppend
    \/ TrayTogglePlayPause
    \/ TrayNextTrack
    \/ TrayPreviousTrack

SpecTray == TrayInit /\ [][TrayNext]_vars

\* C21: current_index, paused, playlist and play_history are written by the
\* thread of the Tk mainloop only: no step of the visualization thread or of
\* the tray-icon thread changes them, and the visualization thread changes
\* nothing of the player but visualization_data.
C21_AsClaimed ==
    [][ /\ last'.op \in OffGuiThread
            => UNCHANGED <<current_index, paused, playlist, play_history>>
        /\ last'.op = "update_visualization"
            => UNCHANGED <<mixer, repeat_mode, shuffle_mode, playback_speed, volume,
                           equalizer_bands, timers>> ]_vars

----------------------------------------------------------------------------
(* Editing the playlist between the polls of update_progress: the commands  *)
(* of the playlist view and of the transport, at most MaxTimers tracks      *)
(* started.                                                                 *)

\* the longest playlist followed
MaxSongs == 3

EditFolders == { <<SongA, SongB>>, <<SongA, SongB, SongC>> }

\* what the user picks in the dialog of add_files
EditFiles == { <<SongC, SongM>> }

\* the sets of rows the user can select
Selections == SUBSET (0..(Len(playlist) - 1))

EditOpenFolder ==
    \E files \in EditFolders : \E rnd \in Draws(Len(files)) :
        /\ Commit(open_folder(State(rnd), files), "open_folder", MaxTimers)
        /\ UNCHANGED polled

AddFiles ==
    \E files \in EditFiles :
        /\ Len(playlist) + Len(files) <= MaxSongs
        /\ Commit(add_files(State(<<>>), files), "add_files", MaxTimers)
        /\ UNCHANGED polled

RemoveSelected ==
    \E selection \in Selections :
        /\ Commit(remove_selected(State(<<>>), selection), "remove_selected", MaxTimers)
        /\ UNCHANGED polled

ClearPlaylist ==
    /\ Commit(clear_playlist(State(<<>>)), "clear_playlist", MaxTimers)
    /\ UNCHANGED polled

MoveUp ==
    \E selection \in Selections :
        /\ Commit(move_up(State(<<>>), selection), "move_up", MaxTimers)
        /\ UNCHANGED polled

MoveDown ==
    \E selection \in Selections :
        /\ Commit(move_down(State(<<>>), selection), "move_down", MaxTimers)
        /\ UNCHANGED polled

EditNext ==
    \/ EditOpenFolder
    \/ AddFiles
    \/ RemoveSelected
    \/ ClearPlaylist
    \/ MoveUp
    \/ MoveDown
    \/ PlaySelected
    \/ NextTrack
    \/ PreviousTrack
    \/ Stop

SpecEdit == Init /\ [][EditNext]_vars

\* C22: current_index is -1 or an index of the playlist, and -1 whenever the
\* playlist is empty, after any sequence of add, remove_selected,
\* clear_playlist, move_up, move_down, play, next_track, previous_track, stop.
C22_AsClaimed ==
    /\ current_index = -1 \/ (0 <= current_index /\ current_index < Len(playlist))
    /\ playlist = <<>> => current_index = -1

\* the rows the handler that ran last has removed from the playlist
Removed == {last.log[k].i : k \in {j \in DOMAIN last.log : last.log[j].e = "remove"}}

\* C23: when remove_selected removes songs other than the one being played,
\* playlist[current_index] is still the song loaded in the mixer afterwards;
\* when it removes the song being played, playback is stopped and
\* current_index is -1.
C23_AsClaimed ==
    [][ last'.op = "remove_selected" =>
          /\ ( /\ Removed' # {} /\ current_index \notin Removed'
               /\ current_index >= 0 /\ current_index < Len(playlist)
               /\ mixer.loaded = playlist[current_index + 1] )
             => /\ current_index' >= 0 /\ current_index' < Len(playlist')
                /\ playlist'[current_index' + 1] = mixer'.loaded
          /\ current_index \in Removed'
             => mixer'.st = "stopped" /\ current_index' = -1 ]_vars

\* the rows selected when the handler that ran last was called
Selected == {last.log[k].i : k \in {j \in DOMAIN last.log : last.log[j].e = "selected"}}

\* how often song x is in the list
Count(list, x) == Cardinality({k \in DOMAIN list : list[k] = x})

\* list2 holds the songs of list1, each as often
Permutation(list1, list2) ==
    /\ Len(list1) = Len(list2)
    /\ \A k \in DOMAIN list1 : Count(list2, list1[k]) = Count(list1, list1[k])

\* the step keeps current_index on the song it was on (or where it was, when
\* it was on none)
KeepsCurrentSong ==
    IF current_index >= 0 /\ current_index < Len(playlist)
    THEN /\ current_index' >= 0 /\ current_index' < Len(playlist')
         /\ playlist'[current_index' + 1] = playlist[current_index + 1]
    ELSE current_index' = current_index

\* the step is move_up or move_down (d = -1 or 1) and does what C24 says
Moves(op, d, edge) ==
    last'.op = op =>
      /\ Permutation(playlist, playlist')
      /\ KeepsCurrentSong
      /\ IF edge \in Selected'
         THEN playlist' = playlist /\ current_index' = current_index
         ELSE \A i \in Selected' : playlist'[i + d + 1] = playlist[i + 1]
      /\ UNCHANGED <<play_history, mixer, paused>>

\* move_up of the rows selection, then move_down of the same songs, from the
\* current state, gives back the order and current_index
RoundTrip ==
    \A selection \in Selections :
        LET s1 == move_up(State(<<>>), selection)
            s2 == move_down(s1, {i - 1 : i \in selection})
        IN  0 \notin selection =>
              s2.playlist = playlist /\ s2.current_index = current_index

\* C24: move_up and move_down only permute the playlist: the same songs as
\* often, every selected song one row up (down), or nothing changed when the
\* first (last) row is selected; current_index stays on the same song; and
\* move_up followed by move_down of the same songs restores the order and
\* current_index.
C24_MovesPermute ==
    /\ []RoundTrip
    /\ [][ /\ Moves("move_up", -1, 0)
           /\ Moves("move_down", 1, Len(playlist) - 1) ]_vars

\* move_up has moved the song that is loaded and current one row up
C24_Witness ==
    /\ last.op = "move_up"
    /\ \E k \in DOMAIN last.log : last.log[k] = Ev("move", current_index + 1)
    /\ current_index >= 0
    /\ mixer.loaded = playlist[current_index + 1]
    /\ Cardinality(Selected) = 2

----------------------------------------------------------------------------
(* The play history while the playlist is edited *)

HistoryNext ==
    \/ EditOpenFolder
    \/ RemoveSelected
    \/ ClearPlaylist
    \/ MoveUp
    \/ NextTrack
    \/ PreviousTrack
    \/ ToggleShuffle

SpecHistory == Init /\ [][HistoryNext]_vars

\* C28: every entry of play_history is an index of the current playlist,
\* also after remove_selected, clear_playlist, move_up and move_down; hence
\* previous_track in shuffle mode starts a track whenever the history has at
\* least two entries.
C28_AsClaimed ==
    /\ [](\A k \in DOMAIN play_history :
              0 <= play_history[k] /\ play_history[k] < Len(playlist))
    /\ [][ ( /\ last'.op = "previous_track"
             /\ shuffle_mode
             /\ Len(play_history) >= 2 )
           => \E j \in DOMAIN last'.log : last'.log[j].e = "start" ]_vars

----------------------------------------------------------------------------
(* The polls of update_progress *)

\* C25: at most one update_progress poll is pending at any time: the number
\* of callbacks scheduled with root.after does not grow with the number of
\* tracks started.
C25_AsClaimed == timers <= 1

----------------------------------------------------------------------------
(* The paused flag *)

\* C26: paused = TRUE implies that a track is selected (current_index is not
\* -1) and that its stream is loaded and paused in the mixer; also after a
\* play that fails to load and after set_playback_speed.
C26_AsClaimed ==
    paused =>
      /\ current_index # -1
      /\ current_index < Len(playlist)
      /\ mixer.loaded = playlist[current_index + 1]
      /\ mixer.st = "paused"

----------------------------------------------------------------------------
(* Re-entrancy of play *)

\* C27: a call of play(index) starts at most one track: the update_progress
\* call made inside play never finds the track at its end and never calls
\* play or next_track again, whatever the length of the track and the repeat
\* mode; no handler but the timer callback reaches the end-of-track branch.
C27_AsClaimed ==
    last.op # "update_progress" =>
      /\ \A k \in DOMAIN last.log : last.log[k].e # "ended"
      /\ Cardinality(Starts) <= 1
      /\ Cardinality(PlaysAfter(0)) <= 1

----------------------------------------------------------------------------
(* play_random step by step: every random.randint of its loop is a step of *)
(* its own, and a fair generator does not return current_index for ever.    *)

MaxRandomTimers == 5

RandomFolders == { <<SongA, SongB, SongC>>, <<SongS, SongA>>, <<SongA>> }

\* no handler runs: the Tk mainloop is free to dispatch the next event
Idle == rand_index = NoDraw

RandomOpenFolder ==
    /\ Idle
    /\ \E files \in RandomFolders : \E rnd \in Draws(Len(files)) :
         Commit(open_folder(State(rnd), files), "open_folder", MaxRandomTimers)
    /\ UNCHANGED polled

RandomPoll ==
    /\ Idle
    /\ timers > 0
    /\ \E rnd \in Draws(Len(playlist)) :
         Commit(update_progress([State(rnd) EXCEPT !.timers = @ - 1]), "update_progress",
                MaxRandomTimers)
    /\ polled' = TRUE

\* next_track in shuffle mode calls play_random: with one song it plays
\* index 0, else it takes its first draw
PlayRandomCall ==
    /\ Idle
    /\ shuffle_mode
    /\ playlist # <<>>
    /\ timers + RecursionLimit <= MaxRandomTimers
    /\ IF Len(playlist) = 1
       THEN /\ Commit(play_random(Log(State(<<>>), "next_track", current_index)),
                      "play_random", MaxRandomTimers)
            /\ UNCHANGED polled
       ELSE /\ \E v \in 0..(Len(playlist) - 1) : rand_index' = v
            /\ last' = [op |-> "randint", log |-> <<>>, exc |-> "none"]
            /\ UNCHANGED <<playlist, current_index, paused, repeat_mode, shuffle_mode,
                           play_history, playback_speed, mixer, progress, time_elapsed,
                           timers, polled, busy_paused, volume, last_volume,
                           equalizer_bands, dark_mode, visualization_data, viz_ready,
                           config_file, tray_icon, user_stopped>>

\* "while next_index == self.current_index and len(self.playlist) > 1:" draws again
Randint ==
    /\ rand_index # NoDraw
    /\ rand_index = current_index /\ Len(playlist) > 1
    /\ \E v \in 0..(Len(playlist) - 1) : rand_index' = v
    /\ UNCHANGED <<playlist, current_index, paused, repeat_mode, shuffle_mode,
                   play_history, playback_speed, mixer, progress, time_elapsed,
                   timers, polled, busy_paused, volume, last_volume,
                   equalizer_bands, dark_mode, visualization_data, viz_ready,
                   config_file, tray_icon, user_stopped, last>>

\* the draw that differs from current_index
RandintOther == Randint /\ rand_index' # current_index

\* the loop is left: "self.play(next_index)"
PlayRandomPlay ==
    /\ rand_index # NoDraw
    /\ ~(rand_index = current_index /\ Len(playlist) > 1)
    /\ \E rnd \in Draws(Len(playlist)) :
         Commit(play(Log(State(rnd), "next_track", current_index), rand_index),
                "play_random", MaxRandomTimers)
    /\ UNCHANGED polled

RandomNext ==
    \/ RandomOpenFolder
    \/ Idle /\ ToggleShuffle
    \/ Idle /\ Stop
    \/ PlayRandomCall
    \/ Randint
    \/ PlayRandomPlay
    \/ RandomPoll
    \/ Idle /\ Tick

\* the loop does nothing but draw, so a fair generator gets its turn
SpecRandom == Init /\ [][RandomNext]_vars /\ WF_vars(RandintOther)

\* C29: play_random terminates for every non-empty playlist and every
\* current_index: its loop draws an index other than current_index after
\* finitely many draws, and when it returns it has started exactly one
\* track: track 0 of a one-song playlist, else a track other than the one
\* that was current.
C29_AsClaimed ==
    /\ (rand_index # NoDraw) ~> (rand_index = NoDraw \/ rand_index # current_index)
    /\ [][ last'.op = "play_random" =>
             /\ Cardinality(Starts') = 1
             /\ \A k \in Starts' :
                  last'.log[k].i = IF Len(playlist) = 1 THEN 0 ELSE rand_index
             /\ Len(playlist) > 1 => rand_index # current_index ]_vars

====
